---- MODULE Spec2Model ----
(***************************************************************************)
(* A model of tcpf (src/tcpf.go): a TunnelRealm that admits accepted       *)
(* connections, one TCPTunnel per admitted connection, and the four pump   *)
(* goroutines of every tunnel (readFromInbound, writeToOutbound,           *)
(* readFromOutbound, writeToInbound) that relay chunks over the two        *)
(* unbuffered channels "remote" and "local".                               *)
(*                                                                         *)
(* Every goroutine is a process with a program counter.  A step is one     *)
(* operation on shared state: a socket call, a channel rendezvous, the     *)
(* access to the registry map.  The environment (the clients, the          *)
(* destination, the network) is the nondeterministic outcome of a socket   *)
(* call.                                                                   *)
(***************************************************************************)
EXTENDS Integers, Sequences, FiniteSets, TLC

VARIABLES
    proc,     \* "running", or how the process ended: "exit", "panic", "fatal"
    id,       \* the package-level ID generator (tcpf.go:20)
    tunnels,  \* realm.tunnels: map from id string to tunnel object
    tun,      \* the TCPTunnel objects ever constructed, in order of construction
    conns,    \* the sockets ever opened: state and the chunks read / written
    pump,     \* pump[t][p]: the goroutine p of tunnel object t
    main,     \* the accept loop of main()
    realm,    \* the goroutine started by TunnelRealm.listen
    lim       \* what the environment does in this run (never changes)

vars == <<proc, id, tunnels, tun, conns, pump, main, realm, lim>>

----------------------------------------------------------------------------
(* Bounds of the model *)

\* how many times Accept returns in main's loop (with or without error)
MaxAccepts == 2

\* how many bytes the peers deliver in total to the forwarder's Read calls
MaxBytes == 2

\* The runs explored.  Four pumps per tunnel interleave freely, so the runs
\* are those of one of three environments:
\*   - several connections that carry no data, sockets failing at any time;
\*   - one connection that carries data, sockets failing at any time;
\*   - several connections that carry data, and nothing ever fails.
Environments ==
    { [accepts |-> MaxAccepts, bytes |-> 0,        faults |-> TRUE],
      [accepts |-> 1,          bytes |-> MaxBytes, faults |-> TRUE],
      [accepts |-> MaxAccepts, bytes |-> MaxBytes, faults |-> FALSE] }

----------------------------------------------------------------------------
(* Constants of the program *)

readBufSize == 1024

\* a nil net.Conn: what Accept returns beside a non-nil error
NilConn == 0

Min(a, b) == IF a < b THEN a ELSE b

----------------------------------------------------------------------------
(* strconv.Itoa on the non-negative integers: a string of decimal digits *)

Digit(d) == CASE d = 0 -> "0" [] d = 1 -> "1" [] d = 2 -> "2" [] d = 3 -> "3"
              [] d = 4 -> "4" [] d = 5 -> "5" [] d = 6 -> "6" [] d = 7 -> "7"
              [] d = 8 -> "8" [] d = 9 -> "9"

RECURSIVE Itoa(_)
Itoa(n) == IF n < 10 THEN <<Digit(n)>>
           ELSE Append(Itoa(n \div 10), Digit(n % 10))


----------------------------------------------------------------------------
(* The four pumps of a tunnel, the socket and the channel each one uses *)

Readers == {"readFromInbound", "readFromOutbound"}
Writers == {"writeToOutbound", "writeToInbound"}
Pumps == Readers \cup Writers

\* a faulty wiring: every tunnel's outbound pumps use the outbound socket of
\* the first tunnel
ConnOfShared(t, p) == IF p \in {"readFromInbound", "writeToInbound"}
                      THEN tun[t].inbound ELSE tun[1].outbound

\* the socket a pump reads from or writes to (tcpf.go:158,166,174,182)
ConnOf(t, p) == IF p \in {"readFromInbound", "writeToInbound"}
                THEN tun[t].inbound ELSE tun[t].outbound

\* the channel a pump sends to or receives from
ChanOf(p) == IF p \in {"readFromInbound", "writeToOutbound"}
             THEN "remote" ELSE "local"

ReaderOf(ch) == IF ch = "remote" THEN "readFromInbound" ELSE "readFromOutbound"
WriterOf(ch) == IF ch = "remote" THEN "writeToOutbound" ELSE "writeToInbound"

\* the pcs of a pump inside closeTunnel -> realm.leave, in program order:
\* the pump is about to delete its map entry, to close inbound, to close
\* outbound, to print the map
LeavePcs == {"closeTunnel", "closeIn", "closeOut", "listTunnels"}

----------------------------------------------------------------------------
(* Sockets *)

\* a freshly opened socket: nothing read from it, nothing written to it
NewConn == [open |-> TRUE, rd |-> <<>>, wr |-> <<>>]

\* how many bytes all Read calls have returned so far
RECURSIVE SumLen(_)
SumLen(chunks) == IF chunks = <<>> THEN 0
                  ELSE Len(Head(chunks)) + SumLen(Tail(chunks))

RECURSIVE BytesRead(_)
BytesRead(cs) == IF cs = <<>> THEN 0
                 ELSE SumLen(Head(cs).rd) + BytesRead(Tail(cs))

\* the next n bytes a peer delivers; every byte of a run is distinct
NextBytes(n) == [i \in 1..n |-> BytesRead(conns) + i]

\* conn.Read returned bytes[:n]: the socket's stream advances by one chunk
ConnRead(c, chunk) == [c EXCEPT !.rd = Append(@, chunk)]

\* a faulty Write: a chunk of more than one byte goes out as two chunks, and
\* a one-byte chunk goes out twice
ConnWriteSplit(c, chunk) ==
    [c EXCEPT !.wr = IF Len(chunk) > 1
                     THEN @ \o <<SubSeq(chunk, 1, 1), SubSeq(chunk, 2, Len(chunk))>>
                     ELSE @ \o <<chunk, chunk>>]

\* conn.Write(bytes) returned without error: the chunk is on the wire, whole
ConnWrite(c, chunk) == [c EXCEPT !.wr = Append(@, chunk)]

\* conn.Close(): closes an open socket; on a closed one it only returns an error
ConnClose(c) == [c EXCEPT !.open = FALSE]

----------------------------------------------------------------------------
(* The registry map *)

\* a faulty insert whose key is the size of the registry plus one
MapInsertAtLen(m, k, v) ==
    [x \in DOMAIN m \cup {Itoa(Cardinality(DOMAIN m) + 1)} |->
        IF x = Itoa(Cardinality(DOMAIN m) + 1) THEN v ELSE m[x]]

\* a faulty insert that keeps only the newest tunnel in the registry
MapInsertEvicting(m, k, v) == [x \in {k} |-> v]

MapInsert(m, k, v) == [x \in DOMAIN m \cup {k} |-> IF x = k THEN v ELSE m[x]]

\* a faulty delete: the key is taken from the package-level id (the number of
\* the newest tunnel) instead of tunnel.id
MapDeleteNewest(m, k) == [x \in DOMAIN m \ {Itoa(id)} |-> m[x]]

MapDelete(m, k) == [x \in DOMAIN m \ {k} |-> m[x]]

\* the goroutines whose next operation is a write of realm.tunnels
MapWriters ==
    {<<t, p>> \in (1..Len(tun)) \X Pumps : pump[t][p].pc = "closeTunnel"}
        \cup (IF realm.pc = "insert" THEN {<<0, "realm">>} ELSE {})

\* Nothing orders the map accesses of different goroutines.  When goroutine
\* self is at an access of realm.tunnels and another goroutine is at a write of
\* it, the two accesses are concurrent: the runtime either does not notice and
\* the access goes through, or it throws "fatal error: concurrent map writes"
\* ("concurrent map iteration and map write" in a reader)
RacingWith(self) == MapWriters \ {self} # {}

----------------------------------------------------------------------------
\* main has called NewTunnelRealm and enters its accept loop; the realm's
\* goroutine waits on realm.joining
Start ==
    /\ proc = "running"
    /\ id = 0
    /\ tunnels = << >>
    /\ tun = << >>
    /\ conns = << >>
    /\ pump = << >>
    /\ main = [pc |-> "accept", conn |-> NilConn, accepts |-> 0]
    /\ realm = [pc |-> "recv", conn |-> NilConn, tunnel |-> 0]

Init == Start /\ lim \in Environments

\* the runs in which connections carry data
InitData == Start /\ lim \in {e \in Environments : e.bytes > 0}

----------------------------------------------------------------------------
(* main(): the accept loop (tcpf.go:197-203) *)

\* serverSock.Accept() returns a connection
AcceptOk ==
    /\ proc = "running"
    /\ main.pc = "accept"
    /\ main.accepts < lim.accepts
    /\ conns' = Append(conns, NewConn)
    /\ main' = [pc |-> "send", conn |-> Len(conns) + 1, accepts |-> main.accepts + 1]
    /\ UNCHANGED <<proc, id, tunnels, tun, pump, realm, lim>>

\* serverSock.Accept() returns an error: it is logged, and the loop goes on to
\* the send with the nil conn that came with the error
AcceptErr ==
    /\ proc = "running"
    /\ main.pc = "accept"
    /\ main.accepts < lim.accepts
    /\ lim.faults
    /\ main' = [pc |-> "send", conn |-> NilConn, accepts |-> main.accepts + 1]
    /\ UNCHANGED <<proc, id, tunnels, tun, conns, pump, realm, lim>>

\* a faulty hand-over that does not wait for the realm's goroutine to be back
\* at its receive: the admission in progress is replaced by the new one
JoiningWhileBusy ==
    /\ proc = "running"
    /\ main.pc = "send"
    /\ realm' = [pc |-> "join", conn |-> main.conn, tunnel |-> 0]
    /\ main' = [main EXCEPT !.pc = "accept", !.conn = NilConn]
    /\ UNCHANGED <<proc, id, tunnels, tun, conns, pump, lim>>

\* realm.joining <- conn meets conn := <-realm.joining (an unbuffered channel)
Joining ==
    /\ proc = "running"
    /\ main.pc = "send"
    /\ realm.pc = "recv"
    /\ realm' = [pc |-> "join", conn |-> main.conn, tunnel |-> 0]
    /\ main' = [main EXCEPT !.pc = "accept", !.conn = NilConn]
    /\ UNCHANGED <<proc, id, tunnels, tun, conns, pump, lim>>

----------------------------------------------------------------------------
(* TunnelRealm.join -> newTCPTunnel (tcpf.go:65-71, 99-116) *)

\* a faulty generator: the number of registered tunnels plus one
GenerateIDFromLen == Cardinality(DOMAIN tunnels) + 1

\* generateID: id++, the new value is the tunnel's number
GenerateID == id + 1

\* the goroutines as tunnel.listen starts them
StartPumps ==
    [p \in Pumps |-> [pc |-> IF p \in Readers THEN "read" ELSE "recv",
                      buf |-> <<>>, err |-> "nil", logged |-> FALSE]]

\* a faulty newTCPTunnel: the id is generated before the dial is checked
DialFailAfterGenerateID ==
    /\ proc = "running"
    /\ realm.pc = "join"
    /\ lim.faults
    /\ id' = GenerateID
    /\ proc' = "exit"
    /\ UNCHANGED <<tunnels, tun, conns, pump, main, realm, lim>>

\* net.Dial fails: log, os.Exit(1)
DialFail ==
    /\ proc = "running"
    /\ realm.pc = "join"
    /\ lim.faults
    /\ proc' = "exit"
    /\ UNCHANGED <<id, tunnels, tun, conns, pump, main, realm, lim>>

\* net.Dial succeeds: the tunnel is constructed with a new id and its four
\* pumps are started; the realm has not registered it yet
DialOk ==
    /\ proc = "running"
    /\ realm.pc = "join"
    /\ conns' = Append(conns, NewConn)
    /\ id' = GenerateID
    /\ tun' = Append(tun, [id |-> Itoa(id'), inbound |-> realm.conn,
                           outbound |-> Len(conns) + 1])
    /\ pump' = Append(pump, StartPumps)
    /\ realm' = [realm EXCEPT !.pc = "insert", !.tunnel = Len(tun) + 1]
    /\ UNCHANGED <<proc, tunnels, main, lim>>

\* realm.tunnels[id] = tunnel
JoinInsert ==
    /\ proc = "running"
    /\ realm.pc = "insert"
    /\ \/ /\ tunnels' = MapInsert(tunnels, tun[realm.tunnel].id, realm.tunnel)
          /\ realm' = [realm EXCEPT !.pc = "listTunnels"]
          /\ proc' = proc
       \/ RacingWith(<<0, "realm">>) /\ proc' = "fatal" /\ UNCHANGED <<tunnels, realm>>
    /\ UNCHANGED <<id, tun, conns, pump, main, lim>>

\* log "Added tunnel", realm.listTunnels() prints the map; join returns
JoinList ==
    /\ proc = "running"
    /\ realm.pc = "listTunnels"
    /\ \/ realm' = [pc |-> "recv", conn |-> NilConn, tunnel |-> 0] /\ proc' = proc
       \/ RacingWith(<<0, "realm">>) /\ proc' = "fatal" /\ realm' = realm
    /\ UNCHANGED <<id, tunnels, tun, conns, pump, main, lim>>

----------------------------------------------------------------------------
(* The pumps: readFromConn, writeToConn and their four callers
   (tcpf.go:131-150, 157-187) *)

\* a faulty caller that logs every error, io.EOF included
LoggedAlways(err) == TRUE

\* the callers log every error but io.EOF
Logged(err) == err # "EOF"

\* readFromConn / writeToConn returned err: the caller logs it (or not) and
\* goes on to tunnel.closeTunnel()
Returned(t, p, err) ==
    [pump EXCEPT ![t][p] = [pc |-> "closeTunnel", buf |-> <<>>, err |-> err,
                            logged |-> Logged(err)]]

\* the pump goes on inside realm.leave; err is dead, the log line is out
Goes(t, p, pc) ==
    [pump EXCEPT ![t][p] = [pc |-> pc, buf |-> <<>>, err |-> "nil", logged |-> FALSE]]

\* a method called on the nil conn: a nil dereference, which no goroutine
\* recovers from
NilDeref(t, p) ==
    /\ proc = "running"
    /\ pump[t][p].pc \in {"read", "write", "closeIn"}
    /\ tun[t].inbound = NilConn
    /\ pump[t][p].pc = "closeIn" \/ ConnOf(t, p) = NilConn
    /\ proc' = "panic"
    /\ UNCHANGED <<id, tunnels, tun, conns, pump, main, realm, lim>>

\* a faulty reader that reads ahead: it reads the next chunk while the
\* previous one still waits at the handoff, and the new chunk replaces it
ReadChunkAhead(t, p) ==
    /\ proc = "running"
    /\ p \in Readers
    /\ pump[t][p].pc \in {"read", "send"}
    /\ ConnOf(t, p) # NilConn
    /\ conns[ConnOf(t, p)].open
    /\ \E n \in 1..Min(readBufSize, lim.bytes - BytesRead(conns)) :
          /\ conns' = [conns EXCEPT ![ConnOf(t, p)] = ConnRead(@, NextBytes(n))]
          /\ pump' = [pump EXCEPT ![t][p].pc = "send", ![t][p].buf = NextBytes(n)]
    /\ UNCHANGED <<proc, id, tunnels, tun, main, realm, lim>>

\* n, err := conn.Read(bytes) returns n > 0 bytes: the reader goes on to the
\* send of bytes[:n]
ReadChunk(t, p) ==
    /\ proc = "running"
    /\ p \in Readers
    /\ pump[t][p].pc = "read"
    /\ ConnOf(t, p) # NilConn
    /\ conns[ConnOf(t, p)].open
    /\ \E n \in 1..Min(readBufSize, lim.bytes - BytesRead(conns)) :
          /\ conns' = [conns EXCEPT ![ConnOf(t, p)] = ConnRead(@, NextBytes(n))]
          /\ pump' = [pump EXCEPT ![t][p].pc = "send", ![t][p].buf = NextBytes(n)]
    /\ UNCHANGED <<proc, id, tunnels, tun, main, realm, lim>>

\* what a failing Read or Write on socket c returns: the forwarder has closed
\* c itself, or else the peer has closed (io.EOF, Read only) or the network
\* failed
SocketErrors(c, eof) ==
    IF ~conns[c].open THEN {"closed"}
    ELSE IF ~lim.faults THEN {}
    ELSE IF eof THEN {"EOF", "neterr"} ELSE {"neterr"}

\* conn.Read returns an error
ReadErr(t, p) ==
    /\ proc = "running"
    /\ p \in Readers
    /\ pump[t][p].pc = "read"
    /\ ConnOf(t, p) # NilConn
    /\ \E err \in SocketErrors(ConnOf(t, p), TRUE) : pump' = Returned(t, p, err)
    /\ UNCHANGED <<proc, id, tunnels, tun, conns, main, realm, lim>>

\* *channel <- bytes[:n] meets bytes := <-*channel on the tunnel's unbuffered
\* channel ch
Handoff(t, ch) ==
    /\ proc = "running"
    /\ pump[t][ReaderOf(ch)].pc = "send"
    /\ pump[t][WriterOf(ch)].pc = "recv"
    /\ pump' = [pump EXCEPT ![t][ReaderOf(ch)].pc = "read",
                            ![t][ReaderOf(ch)].buf = <<>>,
                            ![t][WriterOf(ch)].pc = "write",
                            ![t][WriterOf(ch)].buf = pump[t][ReaderOf(ch)].buf]
    /\ UNCHANGED <<proc, id, tunnels, tun, conns, main, realm, lim>>

\* conn.Write(bytes) succeeds: the writer goes back to the receive
WriteChunk(t, p) ==
    /\ proc = "running"
    /\ p \in Writers
    /\ pump[t][p].pc = "write"
    /\ ConnOf(t, p) # NilConn
    /\ conns[ConnOf(t, p)].open
    /\ conns' = [conns EXCEPT ![ConnOf(t, p)] = ConnWrite(@, pump[t][p].buf)]
    /\ pump' = [pump EXCEPT ![t][p].pc = "recv", ![t][p].buf = <<>>]
    /\ UNCHANGED <<proc, id, tunnels, tun, main, realm, lim>>

\* conn.Write returns an error
WriteErr(t, p) ==
    /\ proc = "running"
    /\ p \in Writers
    /\ pump[t][p].pc = "write"
    /\ ConnOf(t, p) # NilConn
    /\ \E err \in SocketErrors(ConnOf(t, p), FALSE) : pump' = Returned(t, p, err)
    /\ UNCHANGED <<proc, id, tunnels, tun, conns, main, realm, lim>>

----------------------------------------------------------------------------
(* tunnel.closeTunnel -> realm.leave(tunnel), run by the pump that returned
   (tcpf.go:152-155, 73-79) *)

\* delete(realm.tunnels, tunnel.id)
LeaveDelete(t, p) ==
    /\ proc = "running"
    /\ pump[t][p].pc = "closeTunnel"
    /\ \/ /\ tunnels' = MapDelete(tunnels, tun[t].id)
          /\ pump' = Goes(t, p, "closeIn")
          /\ proc' = proc
       \/ RacingWith(<<t, p>>) /\ proc' = "fatal" /\ UNCHANGED <<tunnels, pump>>
    /\ UNCHANGED <<id, tun, conns, main, realm, lim>>

\* (*tunnel.inbound).Close()
LeaveCloseInbound(t, p) ==
    /\ proc = "running"
    /\ pump[t][p].pc = "closeIn"
    /\ tun[t].inbound # NilConn
    /\ conns' = [conns EXCEPT ![tun[t].inbound] = ConnClose(@)]
    /\ pump' = Goes(t, p, "closeOut")
    /\ UNCHANGED <<proc, id, tunnels, tun, main, realm, lim>>

\* a faulty leave: the outbound socket is left open
LeaveForgetsOutbound(t, p) ==
    /\ proc = "running"
    /\ pump[t][p].pc = "closeOut"
    /\ pump' = Goes(t, p, "listTunnels")
    /\ UNCHANGED <<proc, id, tunnels, tun, conns, main, realm, lim>>

\* (*tunnel.outbound).Close()
LeaveCloseOutbound(t, p) ==
    /\ proc = "running"
    /\ pump[t][p].pc = "closeOut"
    /\ conns' = [conns EXCEPT ![tun[t].outbound] = ConnClose(@)]
    /\ pump' = Goes(t, p, "listTunnels")
    /\ UNCHANGED <<proc, id, tunnels, tun, main, realm, lim>>

\* realm.listTunnels() prints the map; leave, closeTunnel and the pump return
LeaveList(t, p) ==
    /\ proc = "running"
    /\ pump[t][p].pc = "listTunnels"
    /\ \/ pump' = Goes(t, p, "done") /\ proc' = proc
       \/ RacingWith(<<t, p>>) /\ proc' = "fatal" /\ pump' = pump
    /\ UNCHANGED <<id, tunnels, tun, conns, main, realm, lim>>

----------------------------------------------------------------------------
\* one step of the pump goroutine p of tunnel t
PumpStep(t, p) ==
    /\ t <= Len(tun)
    /\ \/ NilDeref(t, p)
       \/ ReadChunk(t, p)
       \/ ReadErr(t, p)
       \/ WriteChunk(t, p)
       \/ WriteErr(t, p)
       \/ Handoff(t, ChanOf(p))
       \/ LeaveDelete(t, p)
       \/ LeaveCloseInbound(t, p)
       \/ LeaveCloseOutbound(t, p)
       \/ LeaveList(t, p)

Next ==
    \/ AcceptOk
    \/ AcceptErr
    \/ Joining
    \/ DialFail
    \/ DialOk
    \/ JoinInsert
    \/ JoinList
    \/ \E t \in 1..Len(tun), p \in Pumps : NilDeref(t, p)
    \/ \E t \in 1..Len(tun), p \in Pumps : ReadChunk(t, p)
    \/ \E t \in 1..Len(tun), p \in Pumps : ReadErr(t, p)
    \/ \E t \in 1..Len(tun), ch \in {"remote", "local"} : Handoff(t, ch)
    \/ \E t \in 1..Len(tun), p \in Pumps : WriteChunk(t, p)
    \/ \E t \in 1..Len(tun), p \in Pumps : WriteErr(t, p)
    \/ \E t \in 1..Len(tun), p \in Pumps : LeaveDelete(t, p)
    \/ \E t \in 1..Len(tun), p \in Pumps : LeaveCloseInbound(t, p)
    \/ \E t \in 1..Len(tun), p \in Pumps : LeaveCloseOutbound(t, p)
    \/ \E t \in 1..Len(tun), p \in Pumps : LeaveList(t, p)

Spec == Init /\ [][Next]_vars

SpecData == InitData /\ [][Next]_vars

\* The scheduler runs every goroutine that can run.  A Read or a Write on a
\* socket that is still open may block for ever (nothing times out); on a
\* socket the forwarder has closed it returns at once.
Runnable(t, p) ==
    /\ t <= Len(tun)
    /\ pump[t][p].pc \in {"read", "write"} =>
          IF ConnOf(t, p) = NilConn THEN TRUE ELSE ~conns[ConnOf(t, p)].open

FairSpec ==
    /\ Spec
    /\ \A t \in 1..MaxAccepts, p \in Pumps : WF_vars(Runnable(t, p) /\ PumpStep(t, p))

----------------------------------------------------------------------------
(* Vocabulary of the properties *)

Tunnels == 1..Len(tun)
Channels == {"remote", "local"}

\* the sockets at the two ends of a channel of tunnel t
SrcOf(t, ch) == ConnOf(t, ReaderOf(ch))
DstOf(t, ch) == ConnOf(t, WriterOf(ch))

\* the chunks read from / written to a socket so far (none on the nil conn)
Rd(c) == IF c = NilConn THEN <<>> ELSE conns[c].rd
Wr(c) == IF c = NilConn THEN <<>> ELSE conns[c].wr

IsPrefix(s, r) == Len(s) <= Len(r) /\ SubSeq(r, 1, Len(s)) = s

\* the forwarder has closed the socket
Closed(c) == IF c = NilConn THEN FALSE ELSE ~conns[c].open

BothClosed(t) == Closed(tun[t].inbound) /\ Closed(tun[t].outbound)

\* the pump is still in the loop of readFromConn / writeToConn
InLoop(t, p) == pump[t][p].pc \in {"read", "send", "recv", "write"}

\* readFromConn / writeToConn has returned: the pump has terminated its loop
HasReturned(t, p) == ~InLoop(t, p)

\* the pumps of t that have run the delete of realm.leave
LeaveCalls(t) == {p \in Pumps : pump[t][p].pc \in {"closeIn", "closeOut", "listTunnels", "done"}}

\* join has run realm.tunnels[id] = tunnel for tunnel t
Inserted(t) == ~(realm.pc = "insert" /\ realm.tunnel = t)

\* the closed state of a tunnel: both sockets closed, and the entry that join
\* had put in the registry removed
TunnelClosed(t) ==
    /\ BothClosed(t)
    /\ Inserted(t)
    /\ tun[t].id \notin DOMAIN tunnels

\* the number a string of decimal digits denotes
DigitVal(c) == CHOOSE d \in 0..9 : Digit(d) = c

RECURSIVE Atoi(_)
Atoi(s) == IF Len(s) = 0 THEN 0
           ELSE 10 * Atoi(SubSeq(s, 1, Len(s) - 1)) + DigitVal(s[Len(s)])

----------------------------------------------------------------------------
(* C1: for every tunnel and each of its two directions, the chunks written
   to the destination socket are a prefix of the chunks read from the
   source socket: nothing is reordered, duplicated, merged or split. *)
C1_WrittenIsPrefixOfRead ==
    \A t \in Tunnels, ch \in Channels : IsPrefix(Wr(DstOf(t, ch)), Rd(SrcOf(t, ch)))

\* two chunks have been relayed in one direction of a tunnel
C1_Witness ==
    \E t \in Tunnels, ch \in Channels :
        /\ Len(Wr(DstOf(t, ch))) = 2
        /\ Wr(DstOf(t, ch)) = Rd(SrcOf(t, ch))

(* C2: every chunk read from the source reaches the destination before the
   forwarder closes the destination, as long as the destination accepts
   writes.  Stated on the run where the source ends: the reader of a channel
   is the only pump of the tunnel that has returned and it has closed both
   sockets (its writer never saw a Write fail); then everything that the
   reader had read has been written. *)
C2_ReadIsWrittenBeforeClose ==
    \A t \in Tunnels, ch \in Channels :
        ( /\ pump[t][ReaderOf(ch)].pc \in {"listTunnels", "done"}
          /\ \A q \in Pumps \ {ReaderOf(ch)} : InLoop(t, q) )
        => Wr(DstOf(t, ch)) = Rd(SrcOf(t, ch))

(* C3: the registry holds no tunnel whose two sockets are both closed. *)
C3_RegistryHoldsNoClosedTunnel ==
    \A k \in DOMAIN tunnels : ~BothClosed(tunnels[k])

(* C4: whenever one of the four pumps of a tunnel has returned (on a read
   error, an end-of-stream or a write error), both sockets of the tunnel are
   eventually closed, unless the process has ended before (which leaves no
   socket behind either). *)
C4_ReturnLeadsToBothClosed ==
    \A t \in 1..MaxAccepts :
        (t <= Len(tun) /\ \E p \in Pumps : HasReturned(t, p))
            ~> (proc # "running" \/ (t <= Len(tun) /\ BothClosed(t)))

\* one pump has returned and has closed both sockets, while the other three
\* are still in their loops
C4_Witness ==
    \E t \in Tunnels, p \in Pumps :
        /\ proc = "running"
        /\ pump[t][p].pc = "done"
        /\ \A q \in Pumps \ {p} : InLoop(t, q)
        /\ BothClosed(t)

(* C5: after the teardown has closed both sockets of a tunnel, every one of
   its four pumps returns.  Stated on the states where no pump of the tunnel
   can take another step: there all four pumps have returned. *)
C5_ClosedTunnelLeavesNoPump ==
    \A t \in Tunnels :
        ( /\ proc = "running"
          /\ BothClosed(t)
          /\ \A p \in Pumps : ~ENABLED PumpStep(t, p) )
        => \A p \in Pumps : pump[t][p].pc = "done"

(* C6: realm.leave runs exactly once per tunnel, however many of its pumps
   return. *)
C6_LeaveRunsAtMostOnce ==
    \A t \in Tunnels : Cardinality(LeaveCalls(t)) <= 1

(* C7: once a tunnel is closed (both sockets closed, its entry removed) it
   stays closed, and every further step of closeTunnel / leave by a pump of
   that tunnel changes neither the registry nor the open / closed state of
   any socket. *)
C7_LeaveOnClosedTunnelIsNoOp ==
    [][ \A t \in Tunnels :
           TunnelClosed(t) =>
              /\ TunnelClosed(t)'
              /\ \A p \in Pumps :
                    ( /\ pump[t][p].pc \in LeavePcs
                      /\ pump'[t][p].pc # pump[t][p].pc )
                    => /\ tunnels' = tunnels
                       /\ \A c \in 1..Len(conns) : conns'[c].open = conns[c].open ]_vars

\* a tunnel is closed, one of its pumps has finished leave and another pump
\* of it has run the delete of leave as well
C7_Witness ==
    \E t \in Tunnels, p, q \in Pumps :
        /\ p # q
        /\ TunnelClosed(t)
        /\ pump[t][p].pc = "done"
        /\ pump[t][q].pc \in {"closeIn", "closeOut", "listTunnels", "done"}
        /\ Cardinality(DOMAIN tunnels) = 1

(* C8: tunnel identities are unique and strictly increasing in the order of
   construction, tunnels that are closed already included. *)
C8_IdsUniqueAndIncreasing ==
    \A i, j \in Tunnels :
        i < j => /\ tun[i].id # tun[j].id
                 /\ Atoi(tun[i].id) < Atoi(tun[j].id)

\* two tunnels have been constructed and the first one is closed
C8_Witness ==
    /\ Len(tun) >= 2
    /\ TunnelClosed(1)

(* C9: when the outbound dial fails the process ends.  The step of join
   that dials either opens the outbound socket and constructs the tunnel, or
   it ends the process: it then constructs and registers no tunnel,
   allocates no identity and starts no pump; and no step follows the end of
   the process. *)
C9_DialFailureEndsProcess ==
    [][ /\ proc # "exit"
        /\ (realm.pc = "join" /\ (realm' # realm \/ proc' = "exit")) =>
              \/ /\ Len(conns') = Len(conns) + 1
                 /\ Len(tun') = Len(tun) + 1
              \/ /\ proc' = "exit"
                 /\ UNCHANGED <<id, tunnels, tun, pump, conns, main, realm>> ]_vars

\* the dial failed for the second connection while the first tunnel exists
C9_Witness ==
    /\ proc = "exit"
    /\ Len(tun) = 1
    /\ main.accepts = 2

(* C10: the process ends only because an outbound dial failed: neither a
   failure of Accept nor a read or write failure in a tunnel ends it. *)
C10_OnlyDialFailureEndsProcess ==
    proc \in {"running", "exit"}

\* the chunks of a sequence of chunks
ChunksOf(chunks) == {chunks[i] : i \in 1..Len(chunks)}

\* the sockets of a tunnel
Ends(t) == {tun[t].inbound, tun[t].outbound} \ {NilConn}

\* the socket whose chunks travel over channel ch of tunnel t
\* (tcpf.go:158 and 182 for remote, 166 and 174 for local)
Source(t, ch) == IF ch = "remote" THEN tun[t].inbound ELSE tun[t].outbound
Sink(t, ch) == IF ch = "remote" THEN tun[t].outbound ELSE tun[t].inbound

(* C11: no cross-talk.  No two tunnels share a socket; every chunk written
   to a tunnel's outbound socket was read from that tunnel's inbound socket
   and every chunk written to its inbound socket was read from its outbound
   socket; every chunk a pump holds (at the handoff or for its Write) was
   read from the source socket of the pump's own tunnel and direction.
   Every byte of a run is distinct, so a chunk read from the socket of one
   tunnel is a chunk of no other socket. *)
C11_NoCrossTalk ==
    \A t \in Tunnels :
        /\ \A u \in Tunnels \ {t} : Ends(t) \cap Ends(u) = {}
        /\ tun[t].outbound # tun[t].inbound
        /\ \A ch \in Channels :
              /\ ChunksOf(Wr(Sink(t, ch))) \subseteq ChunksOf(Rd(Source(t, ch)))
              /\ \A p \in {ReaderOf(ch), WriterOf(ch)} :
                    pump[t][p].buf # <<>> =>
                        pump[t][p].buf \in ChunksOf(Rd(Source(t, ch)))

\* two tunnels are live at the same time and each one has relayed a chunk
\* from its inbound to its outbound socket
C11_Witness ==
    /\ Len(tun) = 2
    /\ \A t \in Tunnels :
          /\ ~Closed(tun[t].inbound) /\ ~Closed(tun[t].outbound)
          /\ Len(Wr(tun[t].outbound)) = 1
          /\ Wr(tun[t].outbound) = Rd(tun[t].inbound)

\* tunnel u is active: registered, both sockets open, its four pumps in their
\* loops
Active(u) ==
    /\ tun[u].id \in DOMAIN tunnels
    /\ ~Closed(tun[u].inbound) /\ ~Closed(tun[u].outbound)
    /\ \A q \in Pumps : InLoop(u, q)

\* this step is a stream error or a step of the teardown of tunnel t: one of
\* its pumps returns from its loop, or a pump of it inside closeTunnel / leave
\* moves on or ends the process
TeardownStep(t) ==
    \E p \in Pumps :
        \/ InLoop(t, p) /\ pump'[t][p].pc = "closeTunnel"
        \/ /\ pump[t][p].pc \in LeavePcs
           /\ pump'[t][p].pc # pump[t][p].pc \/ proc' # proc

(* C12: a stream error and the teardown of one tunnel leave every other
   tunnel unchanged: an active tunnel u stays registered, its sockets stay
   open and its pumps keep running (as they were, in a process that is still
   running) over every step of the teardown of another tunnel t. *)
C12_TeardownLeavesOthersUnchanged ==
    [][ \A t \in Tunnels, u \in Tunnels :
           (t # u /\ Active(u) /\ TeardownStep(t)) =>
               /\ Active(u)'
               /\ pump'[u] = pump[u]
               /\ proc' = "running" ]_vars

(* C13: no two mutations of the registry map overlap: at any time at most
   one goroutine is at a write of realm.tunnels (the insertion of join or
   the removal of leave), and the runtime never finds two of them in the map
   at once. *)
C13_RegistryMutationsSerialized ==
    /\ Cardinality(MapWriters) <= 1
    /\ proc # "fatal"

(* C14: in every reachable state the two sockets of a tunnel are both open
   or both closed by the forwarder. *)
C14_BothOpenOrBothClosed ==
    \A t \in Tunnels : Closed(tun[t].inbound) <=> Closed(tun[t].outbound)

\* the chunk a pump holds: a reader the one it offers at the handoff, a writer
\* the one it has taken and is writing
Held(t, p) == IF pump[t][p].buf = <<>> THEN <<>> ELSE <<pump[t][p].buf>>

\* the chunks read in a direction that the writer has not taken yet
Untaken(t, ch) ==
    Len(Rd(Source(t, ch))) - Len(Wr(Sink(t, ch))) - Len(Held(t, WriterOf(ch)))

(* C15: the handoff of a direction holds at most one chunk.  While the
   writer of the direction is in its loop, the chunks read from the source
   are exactly the chunks written, then the chunk the writer has taken (if
   any), then the chunk that waits at the handoff (if any): the chunks read
   and not yet taken are at most one, and there is one exactly when the
   reader is blocked in its send, which comes before its next Read. *)
C15_HandoffHoldsOneChunk ==
    \A t \in Tunnels, ch \in Channels :
        InLoop(t, WriterOf(ch)) =>
            /\ Rd(Source(t, ch)) =
                  Wr(Sink(t, ch)) \o Held(t, WriterOf(ch)) \o Held(t, ReaderOf(ch))
            /\ Untaken(t, ch) \in {0, 1}
            /\ Untaken(t, ch) = 1 <=> pump[t][ReaderOf(ch)].pc = "send"

\* the reader has read a second chunk and is blocked at the handoff while the
\* writer is still writing the first one
C15_Witness ==
    \E t \in Tunnels, ch \in Channels :
        /\ pump[t][WriterOf(ch)].pc = "write"
        /\ pump[t][ReaderOf(ch)].pc = "send"
        /\ Len(Rd(Source(t, ch))) = 2
        /\ Wr(Sink(t, ch)) = <<>>

\* the forwarder has begun to tear tunnel t down: it has closed one of its
\* sockets, or removed the entry that join had put in the registry
TornDown(t) ==
    \/ Closed(tun[t].inbound)
    \/ Closed(tun[t].outbound)
    \/ Inserted(t) /\ tun[t].id \notin DOMAIN tunnels

(* C16: the forwarder never tears a tunnel down on its own.  A socket of a
   tunnel is closed, or its registry entry removed, only when one of its own
   pumps has returned; a pump returns only from a Read or a Write that
   failed, and with the error of a closed socket only on a socket the
   forwarder has closed; and in the runs where no socket operation fails,
   every tunnel stays for ever with both sockets open, its four pumps in
   their loops and, once registered, its entry in the registry. *)
C16_NoTeardownWithoutFailure ==
    /\ [](\A t \in Tunnels : TornDown(t) => \E p \in Pumps : HasReturned(t, p))
    /\ [](~lim.faults =>
            \A t \in Tunnels : ~TornDown(t) /\ \A p \in Pumps : InLoop(t, p))
    /\ [][ \A t \in Tunnels, p \in Pumps :
              (InLoop(t, p) /\ ~InLoop(t, p)') =>
                  /\ pump[t][p].pc \in {"read", "write"}
                  /\ pump'[t][p].pc = "closeTunnel"
                  /\ pump'[t][p].err \in {"EOF", "neterr", "closed"}
                  /\ pump'[t][p].err = "closed" => Closed(ConnOf(t, p)) ]_vars

\* a tunnel has been torn down after a failure while another tunnel, whose
\* sockets could fail as well, is still active
C16_Witness ==
    \E t \in Tunnels, u \in Tunnels :
        /\ t # u
        /\ proc = "running"
        /\ lim.faults
        /\ TunnelClosed(t)
        /\ Active(u)

(* C17: a pump that terminates emits the error log line if and only if the
   error that ended its loop is not io.EOF, and in both cases it goes on to
   the teardown: its next step is the delete of realm.leave, from where it
   goes on to close the sockets (unless the process ends there). *)
C17_LoggedUnlessEOF ==
    [][ \A t \in Tunnels, p \in Pumps :
           /\ (InLoop(t, p) /\ ~InLoop(t, p)') =>
                  /\ pump'[t][p].pc = "closeTunnel"
                  /\ pump'[t][p].err # "nil"
                  /\ pump'[t][p].logged <=> pump'[t][p].err # "EOF"
           /\ (pump[t][p].pc = "closeTunnel" /\ pump'[t][p] # pump[t][p]) =>
                  /\ pump'[t][p].pc = "closeIn"
                  /\ tun[t].id \notin DOMAIN tunnels' ]_vars

\* one reader of a tunnel has returned on io.EOF without a log line, the other
\* reader on a network error with a log line; both are about to run leave
C17_Witness ==
    \E t \in Tunnels :
        /\ pump[t]["readFromInbound"].pc = "closeTunnel"
        /\ pump[t]["readFromInbound"].err = "EOF"
        /\ ~pump[t]["readFromInbound"].logged
        /\ pump[t]["readFromOutbound"].pc = "closeTunnel"
        /\ pump[t]["readFromOutbound"].err = "neterr"
        /\ pump[t]["readFromOutbound"].logged

\* the connections main has handed over on realm.joining so far
HandedOver == main.accepts - (IF main.pc = "send" THEN 1 ELSE 0)

\* the realm's goroutine is inside join: an admission is in progress
Admitting == realm.pc # "recv"

(* C18: admissions are strictly sequential and in acceptance order.  Every
   connection handed over has its tunnel constructed, except the one the
   realm's goroutine is dialing for: at most one admission is in progress.
   While an admission is in progress (a slow dial included) the hand-over of
   the next connection cannot take place; it takes place only with the
   realm's goroutine back at its receive, every tunnel constructed so far
   being registered or torn down already.  The tunnels are constructed, and
   their identities allocated, in the order their connections were accepted. *)
C18_AdmissionsSequentialInOrder ==
    /\ [](Len(tun) = HandedOver - (IF realm.pc = "join" THEN 1 ELSE 0))
    /\ [](Admitting => ~ENABLED Joining)
    /\ [](\A i \in Tunnels, j \in Tunnels :
            (tun[i].inbound # NilConn /\ tun[i].inbound < tun[j].inbound) =>
                i < j /\ Atoi(tun[i].id) < Atoi(tun[j].id))
    /\ [][ (main.pc = "send" /\ main'.pc # "send") =>
              /\ ~Admitting
              /\ \A t \in Tunnels : Inserted(t)
              /\ realm'.pc = "join"
              /\ realm'.conn = main.conn
              /\ Len(tun') = Len(tun) ]_vars

\* main had accepted the second connection before the dial for the first one
\* returned, and both tunnels have been constructed, in that order
C18_Witness ==
    /\ Len(tun) = 2
    /\ tun[1].inbound = 1
    /\ tun[2].inbound = 2
    /\ tun[1].outbound = 3

\* the outbound sockets: one per net.Dial that returned without error
Dialed == {tun[t].outbound : t \in Tunnels}

(* C19: the registry is consistent with the identity counter.  Each key k
   of realm.tunnels maps to the tunnel whose id is k and denotes a number
   between 1 and the value of the counter; the value of the counter is the
   number of successful outbound dials so far, which is the number of
   tunnels constructed (a failed dial consumes no identity). *)
C19_RegistryConsistentWithCounter ==
    /\ \A k \in DOMAIN tunnels :
          /\ tunnels[k] \in Tunnels
          /\ tun[tunnels[k]].id = k
          /\ Atoi(k) \in 1..id
    /\ id = Cardinality(Dialed)
    /\ id = Len(tun)

\* two tunnels were constructed; the first one is closed and gone from the
\* registry, the second one is registered under its own id
C19_Witness ==
    /\ Len(tun) = 2
    /\ TunnelClosed(1)
    /\ DOMAIN tunnels = {Itoa(2)}
    /\ tunnels[Itoa(2)] = 2

====
